---------------------------- MODULE Spec2Model ----------------------------
(***************************************************************************)
(* A model of django-orm-cost:                                             *)
(*   - FieldUsageTracker and the track_orm_cost view decorator             *)
(*     (django_orm_cost/decorator.py),                                     *)
(*   - ORMQueryTracker (django_orm_cost/tracker.py).                       *)
(* SQL texts are TLA+ strings, handled character by character the way the  *)
(* Python string methods and the regular expression of the source do.     *)
(***************************************************************************)
EXTENDS Integers, Sequences, FiniteSets, TLC

(***************************************************************************)
(* Python string primitives used by the source.                            *)
(***************************************************************************)

\* The characters str.split(), str.strip() and the regex class \s treat as
\* whitespace (the ASCII ones that occur in SQL text).
Whitespace == {" ", "\t", "\n", "\r"}

LowerLetters == "abcdefghijklmnopqrstuvwxyz"

UpperLetters == "ABCDEFGHIJKLMNOPQRSTUVWXYZ"

CharAt(s, i) == SubSeq(s, i, i)

\* str.upper() on one character.
UpperChar(c) ==
    IF \E k \in 1..Len(LowerLetters) : CharAt(LowerLetters, k) = c
    THEN CharAt(UpperLetters, CHOOSE k \in 1..Len(LowerLetters) : CharAt(LowerLetters, k) = c)
    ELSE c

RECURSIVE upper(_)
\* str.upper()
upper(s) ==
    IF Len(s) = 0 THEN ""
    ELSE UpperChar(CharAt(s, 1)) \o upper(SubSeq(s, 2, Len(s)))

\* The Python test `sub in s` on strings.
Contains(s, sub) ==
    \E i \in 1..(Len(s) - Len(sub) + 1) : SubSeq(s, i, i + Len(sub) - 1) = sub

RECURSIVE SplitWhitespace(_, _, _, _)
\* str.split() without a separator: the maximal runs of non-whitespace.
SplitWhitespace(s, i, cur, acc) ==
    IF i > Len(s)
    THEN IF cur = "" THEN acc ELSE Append(acc, cur)
    ELSE IF CharAt(s, i) \in Whitespace
         THEN SplitWhitespace(s, i + 1, "", IF cur = "" THEN acc ELSE Append(acc, cur))
         ELSE SplitWhitespace(s, i + 1, cur \o CharAt(s, i), acc)

split(s) == SplitWhitespace(s, 1, "", <<>>)

RECURSIVE SplitOnChar(_, _, _, _, _)
\* str.split(sep) for a one-character separator: empty pieces are kept.
SplitOnChar(s, sep, i, cur, acc) ==
    IF i > Len(s)
    THEN Append(acc, cur)
    ELSE IF CharAt(s, i) = sep
         THEN SplitOnChar(s, sep, i + 1, "", Append(acc, cur))
         ELSE SplitOnChar(s, sep, i + 1, cur \o CharAt(s, i), acc)

split_on(s, sep) == SplitOnChar(s, sep, 1, "", <<>>)

RECURSIVE join(_, _)
\* sep.join(parts)
join(sep, parts) ==
    IF Len(parts) = 0 THEN ""
    ELSE IF Len(parts) = 1 THEN parts[1]
    ELSE parts[1] \o sep \o join(sep, Tail(parts))

RECURSIVE RemoveChar(_, _)
\* str.replace(ch, '') for a one-character ch.
RemoveChar(s, ch) ==
    IF Len(s) = 0 THEN ""
    ELSE (IF CharAt(s, 1) = ch THEN "" ELSE CharAt(s, 1))
         \o RemoveChar(SubSeq(s, 2, Len(s)), ch)

\* str.strip()
strip(s) ==
    LET keep == {i \in 1..Len(s) : CharAt(s, i) \notin Whitespace}
    IN  IF keep = {} THEN ""
        ELSE SubSeq(s, CHOOSE i \in keep : \A j \in keep : i <= j,
                       CHOOSE i \in keep : \A j \in keep : j <= i)

\* The slice s[:n].
Prefix(s, n) == SubSeq(s, 1, IF Len(s) < n THEN Len(s) ELSE n)

\* The set of the elements of a sequence.
Range(seq) == {seq[i] : i \in 1..Len(seq)}

(***************************************************************************)
(* ORMQueryTracker._normalize_sql and the counting of duplicate_summary.   *)
(***************************************************************************)

\* A _normalize_sql that only trims the ends of the text.
normalize_sql_trim_only(sql) == strip(sql)

normalize_sql(sql) == join(" ", split(sql))

\* collections.Counter(items): every item that occurs, with how often.
Counter(items) ==
    [t \in Range(items) |-> Cardinality({i \in 1..Len(items) : items[i] = t})]

\* {sql: count for sql, count in counts.items() if count > 1}
MoreThanOnce(counts) ==
    [t \in {u \in DOMAIN counts : counts[u] > 1} |-> counts[t]]

\* duplicate_summary() of a tracker whose queries log holds these texts.
duplicate_summary(sqls) ==
    MoreThanOnce(Counter([i \in 1..Len(sqls) |-> normalize_sql(sqls[i])]))

(***************************************************************************)
(* extract_fields_from_sql.                                                *)
(***************************************************************************)

\* re.IGNORECASE match of a keyword at position i of s.
KeywordAt(s, i, kw) ==
    /\ i >= 1
    /\ i + Len(kw) - 1 <= Len(s)
    /\ upper(SubSeq(s, i, i + Len(kw) - 1)) = kw

\* The length of the whitespace run of s that starts at position i.
WhitespaceRun(s, i) ==
    LET stops == {j \in i..Len(s) : CharAt(s, j) \notin Whitespace}
    IN  IF stops = {} THEN Len(s) + 1 - i
        ELSE (CHOOSE j \in stops : \A k \in stops : j <= k) - i

\* `\s+FROM` matches at position e of s.
SpaceFromAt(s, e) ==
    /\ e <= Len(s)
    /\ WhitespaceRun(s, e) >= 1
    /\ KeywordAt(s, e + WhitespaceRun(s, e), "FROM")

\* The group (.*?) of the match of SELECT\s+(.*?)\s+FROM that starts at
\* position i, as a one-element sequence, or <<>> when no match starts there.
\* \s+ takes the whole whitespace run first and the lazy group then grows to
\* the first place where \s+FROM follows; only when that fails does \s+ give
\* whitespace back, and then the one match left is the empty group directly
\* before FROM.
SelectGroupAt(s, i) ==
    IF ~KeywordAt(s, i, "SELECT") THEN <<>>
    ELSE LET k    == WhitespaceRun(s, i + 6)
             p    == i + 6 + k
             ends == {e \in p..Len(s) : SpaceFromAt(s, e)}
         IN  IF k = 0 THEN <<>>
             ELSE IF ends # {}
             THEN <<SubSeq(s, p, (CHOOSE e \in ends : \A f \in ends : e <= f) - 1)>>
             ELSE IF k >= 2 /\ KeywordAt(s, p, "FROM") THEN <<"">>
             ELSE <<>>

\* re.search(r'SELECT\s+(.*?)\s+FROM', sql, re.IGNORECASE | re.DOTALL):
\* the group of the leftmost match, or <<>> when there is none.
SelectGroup(s) ==
    LET starts == {i \in 1..Len(s) : SelectGroupAt(s, i) # <<>>}
    IN  IF starts = {} THEN <<>>
        ELSE SelectGroupAt(s, CHOOSE i \in starts : \A j \in starts : i <= j)

\* col.split('.')[-1].replace('"', '').strip()
CleanColumn(col) ==
    LET pieces == split_on(col, ".")
    IN  strip(RemoveChar(pieces[Len(pieces)], "\""))

extract_fields_from_sql(sql) ==
    LET match == SelectGroup(sql)
    IN  IF match = <<>> THEN <<"*">>
        ELSE LET columns == split_on(match[1], ",")
             IN  [c \in 1..Len(columns) |-> CleanColumn(columns[c])]

(***************************************************************************)
(* Python dicts whose values are sets: d.get(k, set()) and                 *)
(* d.setdefault(k, set()).add(v).                                          *)
(***************************************************************************)

DictGet(d, k) == IF k \in DOMAIN d THEN d[k] ELSE {}

SetDefaultAdd(d, k, v) ==
    IF k \in DOMAIN d THEN [d EXCEPT ![k] = @ \cup {v}] ELSE d @@ (k :> {v})

EmptyDict == <<>>

(***************************************************************************)
(* The report of track_orm_cost.wrapper (decorator.py, lines 114-189).     *)
(* The printed lines are the output; a colour code is no part of a line.   *)
(* The elapsed time of the "Time:" line is a clock reading and is left out.*)
(***************************************************************************)

Line(kind, n, sql, fetched, consumed) ==
    [kind |-> kind, n |-> n, sql |-> sql, fetched |-> fetched, consumed |-> consumed]

\* consumed / p_consumed: the union of the fields read on the instances
\* recorded for one global query index.
ConsumedAt(q2i, used, global_idx) ==
    UNION {DictGet(used, inst_id) : inst_id \in DictGet(q2i, global_idx)}

\* [f for f in consumed if f in fetched or any(f in col for col in fetched)]
\* The order of the list is the iteration order of a Python set: kept as a set.
ActualConsumed(consumed, fetched) ==
    {f \in consumed :
        \/ f \in Range(fetched)
        \/ \E c \in 1..Len(fetched) : Contains(fetched[c], f)}

\* The prefetch test on the text of the following query.
LooksLikePrefetch(next_sql) ==
    /\ Contains(upper(next_sql), " WHERE ")
    /\ Contains(upper(next_sql), " IN ")

\* is_prefetch_parent for the 0-based position i of the window.
IsPrefetchParent(view_queries, i) ==
    /\ i + 1 < Len(view_queries)
    /\ LooksLikePrefetch(view_queries[i + 2])

\* The lines printed for the primary query at 0-based position i.
PrimaryLines(view_queries, start_queries, q2i, used, i, count) ==
    LET sql     == view_queries[i + 1]
        fetched == extract_fields_from_sql(sql)
        actual  == ActualConsumed(ConsumedAt(q2i, used, start_queries + i), fetched)
    IN  << Line("QuerySet Analysis", count, "", <<>>, {}),
           Line("SQL 1", count, Prefix(sql, 100), <<>>, {}),
           Line("Fields fetched", count, "", fetched, {}),
           Line("Fields consumed", count, "", <<>>, actual) >>

\* A wrapper that prints nothing for the query it takes as a prefetch.
PrefetchLines_silent(view_queries, start_queries, q2i, used, i, count) == <<>>

\* The lines printed for the prefetch query that follows position i.
PrefetchLines(view_queries, start_queries, q2i, used, i, count) ==
    LET next_sql  == view_queries[i + 2]
        p_fetched == extract_fields_from_sql(next_sql)
        p_actual  == ActualConsumed(ConsumedAt(q2i, used, start_queries + i + 1), p_fetched)
    IN  << Line("SQL 2 (Prefetch)", count, Prefix(next_sql, 100), <<>>, {}),
           Line("Prefetch Fields fetched", count, "", p_fetched, {}),
           Line("Prefetch Fields consumed", count, "", <<>>, p_actual) >>

\* The loop variables before the first iteration (lines 117-126).
LoopStart(view_queries) ==
    [i |-> 0, skip_next |-> FALSE, logical_qs_count |-> 1,
     out |-> << Line("Analysis", 0, "", <<>>, {}),
                Line("Queries", Len(view_queries), "", <<>>, {}) >>]

\* A loop that never sets skip_next: the prefetch query is visited again.
LoopBody_no_skip(st, view_queries, start_queries, q2i, used) ==
    LET parent == IsPrefetchParent(view_queries, st.i)
        lines  == PrimaryLines(view_queries, start_queries, q2i, used,
                               st.i, st.logical_qs_count)
                  \o (IF parent
                      THEN PrefetchLines(view_queries, start_queries, q2i, used,
                                         st.i, st.logical_qs_count)
                      ELSE <<>>)
                  \o << Line("Suggested QuerySet", st.logical_qs_count, "", <<>>, {}) >>
    IN  [i |-> st.i + 1,
         skip_next |-> FALSE,
         logical_qs_count |-> st.logical_qs_count + 1,
         out |-> st.out \o lines]

\* One iteration of `for i in range(len(view_queries))` (lines 128-183).
LoopBody(st, view_queries, start_queries, q2i, used) ==
    IF st.skip_next
    THEN [st EXCEPT !.skip_next = FALSE, !.i = @ + 1]
    ELSE LET parent == IsPrefetchParent(view_queries, st.i)
             lines  == PrimaryLines(view_queries, start_queries, q2i, used,
                                    st.i, st.logical_qs_count)
                       \o (IF parent
                           THEN PrefetchLines(view_queries, start_queries, q2i, used,
                                              st.i, st.logical_qs_count)
                           ELSE <<>>)
                       \o << Line("Suggested QuerySet", st.logical_qs_count, "", <<>>, {}) >>
         IN  [i |-> st.i + 1,
              skip_next |-> parent,
              logical_qs_count |-> st.logical_qs_count + 1,
              out |-> st.out \o lines]

\* duplicates of lines 121-122 and 186: the texts are counted as they are.
ReportDuplicates(view_queries) == MoreThanOnce(Counter(view_queries))

\* Lines 185-189: the closing warning.
LoopEnd(st, view_queries) ==
    IF DOMAIN ReportDuplicates(view_queries) # {}
    THEN [st EXCEPT !.out = Append(@, Line("Duplicate Queries Detected", 0, "", <<>>, {}))]
    ELSE st

RECURSIVE RunLoop(_, _, _, _, _)
\* The loop run to its end.
RunLoop(st, view_queries, start_queries, q2i, used) ==
    IF st.i >= Len(view_queries) THEN st
    ELSE RunLoop(LoopBody(st, view_queries, start_queries, q2i, used),
                 view_queries, start_queries, q2i, used)

\* Everything the wrapper prints for one window.
ReportOf(view_queries, start_queries, q2i, used) ==
    LoopEnd(RunLoop(LoopStart(view_queries), view_queries, start_queries, q2i, used),
            view_queries).out

(***************************************************************************)
(* Bounds and input domains.                                               *)
(***************************************************************************)

\* Memory addresses an instance can live at: id(instance).
MaxAddr == 1

\* Statements logged in one thread's connection.queries.
MaxQueries == 1

\* Calls of decorated views (each builds its own FieldUsageTracker).
Calls == {1, 2}

\* Request threads; Django gives each thread its own connection.
Threads == {1, 2}

Addresses == 1..MaxAddr

\* apps.get_models(), in registration order (a base class is registered
\* before a class that derives from it).
GetModels == <<"Author", "Book">>

Models == Range(GetModels)

\* {f.name for f in meta.fields} of each model.
MetaFields == [m \in Models |-> IF m = "Author" THEN {"name"} ELSE {"name", "title"}]

\* Attribute names application code reads: fields, a method, a private
\* attribute.
AttrNames == {"name", "title", "save", "_state"}

\* Statements a view executes.
ViewSQL == {"SELECT name FROM author"}

\* __getattribute__ values: ObjectGetattribute is object.__getattribute__, which
\* django.db.models.Model inherits; <<c, m>> is the patched_getattribute closure
\* that the tracker of call c made for model m; Absent marks a class whose own
\* __dict__ has no entry.
ObjectGetattribute == <<0, "object">>

Absent == <<0, "">>

\* born[a] of an address that holds no instance constructed in a session.
NoBirth == <<0, 0>>

\* The orm_cost command before it is run.
NoCommand == [pc |-> "idle"]

VARIABLES
    base,               \* base[m]: the model class m derives from, or "Model"
    getattribute,       \* getattribute[m]: the __getattribute__ entry of m's own __dict__
    closures,           \* closures[<<c, m>>]: original_getattribute of that closure
    receivers,          \* the trackers whose record_creation is connected to post_init
    heap,               \* heap[a]: the model of the live instance at address a, or "free"
    queries,            \* queries[th]: connection.queries of thread th (the texts)
    pc,                 \* pc[c]: where call c of the wrapper stands
    thread,             \* thread[c]: the thread call c runs on
    caller,             \* caller[c]: the call whose view called c, 0 for a request
    next_model,         \* next_model[c]: position of the loop over apps.get_models()
    used_fields,        \* tracker.used_fields of call c
    patched_models,     \* tracker._patched_models of call c: <<model, original>> pairs
    query_to_instances, \* tracker.query_to_instances of call c
    start_queries,      \* start_queries of call c
    end_queries,        \* end_queries of call c
    loop,               \* the report loop's variables of call c, and the lines printed
    execute_wrappers,   \* connection.execute_wrappers: the entered ORMQueryTrackers
    cm,                 \* cm[t]: the state of the context manager tracker t holds in _cm
    with_stack,         \* the trackers of the open with blocks, innermost last
    tracker_queries,    \* ORMQueryTracker.queries of each tracker
    statements,         \* statements[k]: the statement caller k has in flight
    issued,             \* statements executed so far
    summary,            \* summary[t]: what duplicate_summary() of tracker t returned last
    command,            \* the run of the orm_cost management command
    patch_calls,        \* patch_calls[c]: calls of patch_model made on tracker c by hand
    born,               \* born[a]: thread and statement index at the construction of the
                        \* live instance at address a, for an instance constructed
                        \* while a record_creation was connected (history, not
                        \* program state)
    read_at             \* read_at[th][idx]: the fields read, while a record_creation
                        \* was connected, on such instances constructed on thread th
                        \* at statement index idx (history)

view_vars == <<base, getattribute, closures, receivers, heap, queries, pc, thread,
               caller, next_model, used_fields, patched_models, query_to_instances,
               start_queries, end_queries, loop>>

tracker_vars == <<execute_wrappers, cm, with_stack, tracker_queries, statements, issued,
                  summary>>

\* What only the instances' history records.
history_vars == <<born, read_at>>

extra_vars == <<command, patch_calls, history_vars>>

vars == <<view_vars, tracker_vars, extra_vars>>

(***************************************************************************)
(* Class attributes and patched_getattribute closures.                     *)
(***************************************************************************)

RECURSIVE Resolve(_)
\* The value of the expression model.__getattribute__: the entry of the first
\* class along the bases that has one, object's for none.
Resolve(m) ==
    IF m = "Model" THEN ObjectGetattribute
    ELSE IF getattribute[m] # Absent THEN getattribute[m]
    ELSE Resolve(base[m])

RECURSIVE TrackersOf(_)
\* The trackers that patched_getattribute closure fn and the originals it
\* calls in turn write to.
TrackersOf(fn) ==
    IF fn = ObjectGetattribute THEN {}
    ELSE {fn[1]} \cup TrackersOf(closures[fn])

\* `model in self._patched_models`
IsPatchedBy(c, m) == \E k \in 1..Len(patched_models[c]) : patched_models[c][k][1] = m

\* self._patched_models[model]
OriginalOf(c, m) ==
    patched_models[c][CHOOSE k \in 1..Len(patched_models[c]) : patched_models[c][k][1] = m][2]

\* A patch_model without the membership test of lines 31-32: the model is
\* patched again and the stored original overwritten.
patch_model_again(c, m) ==
    LET original_getattribute == Resolve(m)
    IN  /\ closures' = closures @@ (<<c, m>> :> original_getattribute)
        /\ getattribute' = [getattribute EXCEPT ![m] = <<c, m>>]
        /\ patched_models' = [patched_models EXCEPT ![c] =
               IF IsPatchedBy(c, m)
               THEN [k \in 1..Len(@) |-> IF @[k][1] = m THEN <<m, original_getattribute>>
                                         ELSE @[k]]
               ELSE Append(@, <<m, original_getattribute>>)]

\* FieldUsageTracker.patch_model(model) of call c's tracker.
patch_model(c, m) ==
    IF IsPatchedBy(c, m)
    THEN UNCHANGED <<getattribute, closures, patched_models>>
    ELSE LET original_getattribute == Resolve(m)
         IN  /\ closures' = closures @@ (<<c, m>> :> original_getattribute)
             /\ getattribute' = [getattribute EXCEPT ![m] = <<c, m>>]
             /\ patched_models' = [patched_models EXCEPT ![c] = Append(@, <<m, original_getattribute>>)]

\* FieldUsageTracker.unpatch_all() of call c's tracker.
unpatch_all(c) ==
    /\ getattribute' = [m \in Models |->
                           IF IsPatchedBy(c, m) THEN OriginalOf(c, m) ELSE getattribute[m]]
    /\ patched_models' = [patched_models EXCEPT ![c] = <<>>]

\* The writes of one call of the function fn as __getattribute__(instance, name)
\* for the instance at address a: every closure on the way down adds a field
\* name under id(instance) in its tracker.
patched_getattribute(fn, a, name) ==
    [c \in Calls |->
        IF c \in TrackersOf(fn) /\ name \in MetaFields[heap[a]]
        THEN SetDefaultAdd(used_fields[c], a, name)
        ELSE used_fields[c]]

\* The names object.__getattribute__ finds on an instance of model m: its
\* fields, and what every model instance has.
InstanceAttrs(m) == MetaFields[m] \cup {"save", "_state", "_meta"}

\* object.__getattribute__(instance, name) for the instance at address a: the
\* attribute's value, or AttributeError.
object_getattribute(a, name) ==
    IF name \in InstanceAttrs(heap[a])
    THEN [raised |-> FALSE, value |-> <<heap[a], a, name>>]
    ELSE [raised |-> TRUE, value |-> "AttributeError"]

\* A hook that turns a failed look-up into None.
hook_returns_none_on_error(outcome) ==
    IF outcome.raised THEN [raised |-> FALSE, value |-> "None"] ELSE outcome

\* Line 51 of patched_getattribute, `return original_getattribute(instance,
\* name)`, given how the call of the original ended: its value is returned,
\* its exception passes through.
hook_returns(outcome) == outcome

RECURSIVE getattribute_outcome(_, _, _)
\* How the call fn(instance, name) ends for the instance at address a, fn
\* being object.__getattribute__ or a patched_getattribute closure.
getattribute_outcome(fn, a, name) ==
    IF fn = ObjectGetattribute THEN object_getattribute(a, name)
    ELSE hook_returns(getattribute_outcome(closures[fn], a, name))

\* FieldUsageTracker.record_creation of tracker c, run on thread th for the
\* instance at address a.
record_creation(c, th, a) ==
    LET query_idx == Len(queries[th]) - 1
    IN  SetDefaultAdd(query_to_instances[c], query_idx, a)

(***************************************************************************)
(* Threads and calls.                                                      *)
(***************************************************************************)

\* Call c is inside the wrapper.
Active(c) == pc[c] \notin {"idle", "done", "raised"}

\* Call c waits for a decorated view its own view called.
Blocked(c) == \E d \in Calls : Active(d) /\ caller[d] = c

\* The calls of thread th that are inside the wrapper.
OnThread(th) == {c \in Calls : Active(c) /\ thread[c] = th}

\* Thread th runs application code: it is inside no wrapper, or inside the
\* body of the view of its innermost call.
Running(th) ==
    \A c \in OnThread(th) : Blocked(c) \/ pc[c] = "view"

\* The call whose view body thread th runs, 0 outside every decorated view.
Innermost(th) ==
    IF \E c \in OnThread(th) : ~Blocked(c)
    THEN CHOOSE c \in OnThread(th) : ~Blocked(c)
    ELSE 0

\* Call c is the one its thread executes.
Current(c) == Active(c) /\ ~Blocked(c)

(***************************************************************************)
(* track_orm_cost.wrapper, one action per step of a call.  settings.DEBUG  *)
(* is taken to be on in the host, so that connection.queries logs every    *)
(* statement of a thread and override_settings(DEBUG=True) changes nothing.*)
(***************************************************************************)

NoLoop == [i |-> 0, skip_next |-> FALSE, logical_qs_count |-> 1, out |-> <<>>]

\* view_queries = connection.queries[start_queries:end_queries]
ViewQueries(c) == SubSeq(queries[thread[c]], start_queries[c] + 1, end_queries[c])

\* A request or a running view calls a decorated view on thread th:
\* tracker = FieldUsageTracker() (line 91).
CallView(c, th) ==
    /\ pc[c] = "idle"
    /\ \A d \in Calls : d < c => pc[d] # "idle"
    /\ Running(th)
    /\ pc' = [pc EXCEPT ![c] = "patch"]
    /\ thread' = [thread EXCEPT ![c] = th]
    /\ caller' = [caller EXCEPT ![c] = Innermost(th)]
    /\ next_model' = [next_model EXCEPT ![c] = 1]
    /\ UNCHANGED <<tracker_vars, extra_vars>>
    /\ UNCHANGED <<base, getattribute, closures, receivers, heap, queries, used_fields,
                   patched_models, query_to_instances, start_queries, end_queries, loop>>

\* One turn of `for model in apps.get_models(): tracker.patch_model(model)`.
PatchNext(c) ==
    /\ pc[c] = "patch"
    /\ Current(c)
    /\ patch_model(c, GetModels[next_model[c]])
    /\ next_model' = [next_model EXCEPT ![c] = @ + 1]
    /\ pc' = [pc EXCEPT ![c] = IF next_model[c] = Len(GetModels) THEN "connect" ELSE "patch"]
    /\ UNCHANGED <<tracker_vars, extra_vars>>
    /\ UNCHANGED <<base, receivers, heap, queries, thread, caller, used_fields,
                   query_to_instances, start_queries, end_queries, loop>>

\* post_init.connect(tracker.record_creation), then the with block is entered
\* and start_queries taken (lines 98-103).
Connect(c) ==
    /\ pc[c] = "connect"
    /\ Current(c)
    /\ receivers' = receivers \cup {c}
    /\ start_queries' = [start_queries EXCEPT ![c] = Len(queries[thread[c]])]
    /\ pc' = [pc EXCEPT ![c] = "view"]
    /\ UNCHANGED <<tracker_vars, extra_vars>>
    /\ UNCHANGED <<base, getattribute, closures, heap, queries, thread, caller, next_model,
                   used_fields, patched_models, query_to_instances, end_queries, loop>>

\* view_func returns; end_queries is taken (lines 106-109).
ViewReturn(c) ==
    /\ pc[c] = "view"
    /\ Current(c)
    /\ end_queries' = [end_queries EXCEPT ![c] = Len(queries[thread[c]])]
    /\ pc' = [pc EXCEPT ![c] = "disconnect"]
    /\ UNCHANGED <<tracker_vars, extra_vars>>
    /\ UNCHANGED <<base, getattribute, closures, receivers, heap, queries, thread, caller,
                   next_model, used_fields, patched_models, query_to_instances,
                   start_queries, loop>>

\* view_func raises: the exception leaves the with block and the wrapper
\* (line 106; nothing in the wrapper catches it).
ViewRaise(c) ==
    /\ pc[c] = "view"
    /\ Current(c)
    /\ pc' = [pc EXCEPT ![c] = "raised"]
    /\ UNCHANGED <<tracker_vars, extra_vars>>
    /\ UNCHANGED <<base, getattribute, closures, receivers, heap, queries, thread, caller,
                   next_model, used_fields, patched_models, query_to_instances,
                   start_queries, end_queries, loop>>

\* post_init.disconnect(tracker.record_creation) (line 111).
Disconnect(c) ==
    /\ pc[c] = "disconnect"
    /\ Current(c)
    /\ receivers' = receivers \ {c}
    /\ pc' = [pc EXCEPT ![c] = "unpatch"]
    /\ UNCHANGED <<tracker_vars, extra_vars>>
    /\ UNCHANGED <<base, getattribute, closures, heap, queries, thread, caller, next_model,
                   used_fields, patched_models, query_to_instances, start_queries,
                   end_queries, loop>>

\* tracker.unpatch_all() (line 112).
UnpatchAll(c) ==
    /\ pc[c] = "unpatch"
    /\ Current(c)
    /\ unpatch_all(c)
    /\ pc' = [pc EXCEPT ![c] = "report"]
    /\ UNCHANGED <<tracker_vars, extra_vars>>
    /\ UNCHANGED <<base, closures, receivers, heap, queries, thread, caller, next_model,
                   used_fields, query_to_instances, start_queries, end_queries, loop>>

\* Lines 114-126: the heading is printed and the loop variables are set.
ReportBegin(c) ==
    /\ pc[c] = "report"
    /\ Current(c)
    /\ loop' = [loop EXCEPT ![c] = LoopStart(ViewQueries(c))]
    /\ pc' = [pc EXCEPT ![c] = "loop"]
    /\ UNCHANGED <<tracker_vars, extra_vars>>
    /\ UNCHANGED <<base, getattribute, closures, receivers, heap, queries, thread, caller,
                   next_model, used_fields, patched_models, query_to_instances,
                   start_queries, end_queries>>

\* One iteration of the loop of lines 128-183.
LoopIteration(c) ==
    /\ pc[c] = "loop"
    /\ Current(c)
    /\ loop[c].i < Len(ViewQueries(c))
    /\ loop' = [loop EXCEPT ![c] = LoopBody(@, ViewQueries(c), start_queries[c],
                                            query_to_instances[c], used_fields[c])]
    /\ UNCHANGED <<tracker_vars, extra_vars>>
    /\ UNCHANGED <<base, getattribute, closures, receivers, heap, queries, pc, thread,
                   caller, next_model, used_fields, patched_models, query_to_instances,
                   start_queries, end_queries>>

\* The loop is over: the closing warning, and the response is returned
\* (lines 185-191).
ReportEnd(c) ==
    /\ pc[c] = "loop"
    /\ Current(c)
    /\ loop[c].i >= Len(ViewQueries(c))
    /\ loop' = [loop EXCEPT ![c] = LoopEnd(@, ViewQueries(c))]
    /\ pc' = [pc EXCEPT ![c] = "done"]
    /\ UNCHANGED <<tracker_vars, extra_vars>>
    /\ UNCHANGED <<base, getattribute, closures, receivers, heap, queries, thread, caller,
                   next_model, used_fields, patched_models, query_to_instances,
                   start_queries, end_queries>>

\* Lines 114-191 in one step.
Report(c) ==
    /\ pc[c] = "report"
    /\ Current(c)
    /\ loop' = [loop EXCEPT ![c] =
                   [i |-> Len(ViewQueries(c)),
                    skip_next |-> FALSE,
                    logical_qs_count |-> 0,
                    out |-> ReportOf(ViewQueries(c), start_queries[c],
                                     query_to_instances[c], used_fields[c])]]
    /\ pc' = [pc EXCEPT ![c] = "done"]
    /\ UNCHANGED <<tracker_vars, extra_vars>>
    /\ UNCHANGED <<base, getattribute, closures, receivers, heap, queries, thread, caller,
                   next_model, used_fields, patched_models, query_to_instances,
                   start_queries, end_queries>>

(***************************************************************************)
(* Application code on a thread: statements, instances, attribute reads.   *)
(***************************************************************************)

\* Calls of patch_model made by hand on one tracker.
MaxPatchCalls == 3

\* tracker.patch_model(model) is called on the tracker c, outside a
\* decorated view.
PatchModel(c, m) ==
    /\ pc[c] = "idle"
    /\ patch_calls[c] < MaxPatchCalls
    /\ patch_model(c, m)
    /\ patch_calls' = [patch_calls EXCEPT ![c] = @ + 1]
    /\ UNCHANGED <<tracker_vars, command, history_vars>>
    /\ UNCHANGED <<base, receivers, heap, queries, pc, thread, caller, next_model,
                   used_fields, query_to_instances, start_queries, end_queries, loop>>

\* A statement is executed and logged in the thread's connection.queries.
Execute(th, sql) ==
    /\ Running(th)
    /\ Len(queries[th]) < MaxQueries
    /\ queries' = [queries EXCEPT ![th] = Append(@, sql)]
    /\ UNCHANGED <<tracker_vars, extra_vars>>
    /\ UNCHANGED <<base, getattribute, closures, receivers, heap, pc, thread, caller,
                   next_model, used_fields, patched_models, query_to_instances,
                   start_queries, end_queries, loop>>

\* Model.__init__ builds an instance of m at the free address a and sends
\* post_init to every connected record_creation.
Create(th, m, a) ==
    /\ Running(th)
    /\ heap[a] = "free"
    /\ heap' = [heap EXCEPT ![a] = m]
    /\ query_to_instances' =
           [c \in Calls |-> IF c \in receivers THEN record_creation(c, th, a)
                            ELSE query_to_instances[c]]
    /\ born' = [born EXCEPT ![a] = IF receivers = {} THEN NoBirth
                                   ELSE <<th, Len(queries[th]) - 1>>]
    /\ UNCHANGED <<tracker_vars, command, patch_calls, read_at>>
    /\ UNCHANGED <<base, getattribute, closures, receivers, queries, pc, thread, caller,
                   next_model, used_fields, patched_models, start_queries, end_queries, loop>>

\* getattr(instance, name) on the live instance at address a: Python calls
\* type(instance).__getattribute__.
Read(th, a, name) ==
    /\ Running(th)
    /\ heap[a] # "free"
    /\ used_fields' = patched_getattribute(Resolve(heap[a]), a, name)
    /\ read_at' = IF name \in MetaFields[heap[a]] /\ born[a] # NoBirth /\ receivers # {}
                  THEN [read_at EXCEPT ![born[a][1]] = SetDefaultAdd(@, born[a][2], name)]
                  ELSE read_at
    /\ UNCHANGED <<tracker_vars, command, patch_calls, born>>
    /\ UNCHANGED <<base, getattribute, closures, receivers, heap, queries, pc, thread,
                   caller, next_model, patched_models, query_to_instances, start_queries,
                   end_queries, loop>>

\* The last reference to the instance at address a goes: the address is free
\* for the next instance.
Release(th, a) ==
    /\ Running(th)
    /\ heap[a] # "free"
    /\ heap' = [heap EXCEPT ![a] = "free"]
    /\ born' = [born EXCEPT ![a] = NoBirth]
    /\ UNCHANGED <<tracker_vars, command, patch_calls, read_at>>
    /\ UNCHANGED <<base, getattribute, closures, receivers, queries, pc, thread, caller,
                   next_model, used_fields, patched_models, query_to_instances,
                   start_queries, end_queries, loop>>

(***************************************************************************)
(* ORMQueryTracker (tracker.py) on one connection.  The clock readings     *)
(* start_time and end_time feed total_execution_time only and are left out.*)
(***************************************************************************)

\* Statements executed in one run.
MaxStatements == 2

\* `with` blocks open at the same time.
MaxDepth == 2

\* ORMQueryTracker objects.
Trackers == {1, 2}

\* Callers that execute statements on the connection; caller 1 is the one
\* that opens and closes the with blocks.
Callers == {1, 2}

Owner == {1}

\* What the clock measures for a statement; nothing in the tracker depends
\* on the value.
Durations == {1}

\* Statements executed on the tracked connection; two differ in whitespace
\* only, the third in a name.
TrackerSQL == {"SELECT a FROM t", "SELECT  a\tFROM t\n", "SELECT b FROM t"}

\* What the wrapped execute does: it returns a value or raises an error.
Outcomes == {[raised |-> FALSE, value |-> "cursor"],
             [raised |-> TRUE, value |-> "OperationalError"]}

\* serial is the statement's rank in the order of issue (history).
NoStatement ==
    [stage |-> "idle", sql |-> "", serial |-> 0, pending |-> <<>>,
     executed |-> [raised |-> FALSE, value |-> ""],
     result |-> [raised |-> FALSE, value |-> ""]]

RECURSIVE Reverse(_)
Reverse(seq) == IF Len(seq) = 0 THEN <<>> ELSE Append(Reverse(Tail(seq)), seq[1])

\* What _wrapper hands its caller when execute ended with outcome:
\* `return execute(...)` inside try/finally, the finally block neither
\* returns nor raises.
wrapper_result(outcome) == outcome

\* A _wrapper that records the statement after the call instead of in a
\* finally block: nothing is appended when execute raises.
wrapper_finally_on_success(log, sql, duration, outcome) ==
    IF outcome.raised THEN log ELSE Append(log, [sql |-> sql, time |-> duration])

\* A _wrapper that puts the new entry in front of the log.
wrapper_finally_in_front(log, sql, duration, outcome) ==
    <<[sql |-> sql, time |-> duration]>> \o log

\* The finally block of _wrapper: self.queries.append({"sql": ..., "time": ...}),
\* whatever execute did.
wrapper_finally(log, sql, duration, outcome) ==
    Append(log, [sql |-> sql, time |-> duration])

\* The texts of a tracker's log.
LogTexts(t) == [k \in 1..Len(tracker_queries[t]) |-> tracker_queries[t][k].sql]

\* ORMQueryTracker.total_queries
total_queries(t) == Len(tracker_queries[t])

RECURSIVE SumTimes(_)
SumTimes(log) == IF Len(log) = 0 THEN 0 ELSE log[1].time + SumTimes(Tail(log))

\* ORMQueryTracker.total_db_time
total_db_time(t) == SumTimes(tracker_queries[t])

\* The last entry of connection.execute_wrappers is popped: what the finally
\* block of Django's execute_wrapper does.
Pop(wrappers) == SubSeq(wrappers, 1, Len(wrappers) - 1)

\* ORMQueryTracker.__enter__.  The new context manager replaces the one
\* self._cm held; when that one was still entered, CPython frees it at once,
\* which closes its generator and runs its finally block: the last entry of
\* connection.execute_wrappers goes, whichever tracker's it is.  Then the new
\* context manager is entered, which appends the wrapper.
Enter(t) ==
    /\ Len(with_stack) < MaxDepth
    /\ statements[1].stage \in {"idle", "finished"}
    /\ execute_wrappers' = Append(IF cm[t] = "entered" THEN Pop(execute_wrappers)
                                  ELSE execute_wrappers, t)
    /\ cm' = [cm EXCEPT ![t] = "entered"]
    /\ with_stack' = Append(with_stack, t)
    /\ UNCHANGED <<tracker_queries, statements, issued, summary>>
    /\ UNCHANGED <<view_vars, extra_vars>>

\* A context manager that leaves the wrapper installed when the body of the
\* with block raised.
cm_exit_keeps_on_error(wrappers, entered, exc) ==
    IF entered /\ ~exc THEN Pop(wrappers) ELSE wrappers

\* self._cm.__exit__(exc_type, exc_value, traceback): a context manager that
\* is still entered resumes its generator, by next() or, when the body of the
\* with block raised (exc), by throw(); either way the finally block pops the
\* last entry.  One that was exited before does nothing.
cm_exit(wrappers, entered, exc) ==
    IF entered THEN Pop(wrappers) ELSE wrappers

\* ORMQueryTracker.__exit__ at the end of the innermost open with block,
\* reached by the end of the body or by an exception of it (exc).
Exit(t, exc) ==
    /\ Len(with_stack) > 0
    /\ with_stack[Len(with_stack)] = t
    /\ statements[1].stage \in {"idle", "finished"}
    /\ with_stack' = SubSeq(with_stack, 1, Len(with_stack) - 1)
    /\ execute_wrappers' = cm_exit(execute_wrappers, cm[t] = "entered", exc)
    /\ cm' = [cm EXCEPT ![t] = IF @ = "entered" THEN "exited" ELSE @]
    /\ UNCHANGED <<tracker_queries, statements, issued, summary>>
    /\ UNCHANGED <<view_vars, extra_vars>>

\* Caller k executes a statement: Django chains the wrappers installed at that
\* moment, the first installed outermost, so the finally blocks run from the
\* last installed to the first.
Issue(k, sql) ==
    /\ statements[k].stage \in {"idle", "finished"}
    /\ issued < MaxStatements
    /\ issued' = issued + 1
    /\ statements' = [statements EXCEPT ![k] =
           [NoStatement EXCEPT !.stage = "executing", !.sql = sql, !.serial = issued + 1,
                               !.pending = Reverse(execute_wrappers)]]
    /\ UNCHANGED <<execute_wrappers, cm, with_stack, tracker_queries, summary>>
    /\ UNCHANGED <<view_vars, extra_vars>>

\* The database executes the statement of caller k.
Underlying(k, outcome) ==
    /\ statements[k].stage = "executing"
    /\ statements' = [statements EXCEPT ![k] =
           [@ EXCEPT !.executed = outcome,
                     !.result = outcome,
                     !.stage = IF Len(statements[k].pending) = 0 THEN "finished"
                               ELSE "unwinding"]]
    /\ UNCHANGED <<execute_wrappers, cm, with_stack, tracker_queries, issued, summary>>
    /\ UNCHANGED <<view_vars, extra_vars>>

\* The innermost _wrapper still on the stack of caller k's statement ends:
\* its finally block runs and its result goes to the next wrapper out.
WrapperReturn(k, duration) ==
    /\ statements[k].stage = "unwinding"
    /\ LET t == Head(statements[k].pending)
           st == statements[k]
       IN  /\ tracker_queries' = [tracker_queries EXCEPT ![t] =
                   wrapper_finally(@, st.sql, duration, st.result)]
           /\ statements' = [statements EXCEPT ![k] =
                   [@ EXCEPT !.pending = Tail(@),
                             !.result = wrapper_result(st.result),
                             !.stage = IF Len(st.pending) = 1 THEN "finished"
                                       ELSE "unwinding"]]
    /\ UNCHANGED <<execute_wrappers, cm, with_stack, issued, summary>>
    /\ UNCHANGED <<view_vars, extra_vars>>

\* The value of summary before duplicate_summary() was ever called.
NoSummary == [none |-> 0]

\* ORMQueryTracker.duplicate_summary() is called on tracker t.
Summarize(t) ==
    /\ summary' = [summary EXCEPT ![t] = duplicate_summary(LogTexts(t))]
    /\ UNCHANGED <<execute_wrappers, cm, with_stack, tracker_queries, statements, issued>>
    /\ UNCHANGED <<view_vars, extra_vars>>

(***************************************************************************)
(* The orm_cost management command (management/commands/orm_cost.py).      *)
(***************************************************************************)

\* An object a module holds: whether callable(obj), whether
\* inspect.signature(obj) finds a signature, the names of its parameters and
\* how many of them have no default.
Function(params, required) ==
    [callable |-> TRUE, signature |-> TRUE, params |-> params, required |-> required]

NotCallable == [callable |-> FALSE, signature |-> FALSE, params |-> <<>>, required |-> 0]

\* A callable of which inspect.signature raises ValueError, as for some
\* built-in callables.
Opaque == [callable |-> TRUE, signature |-> FALSE, params |-> <<>>, required |-> 0]

\* The attributes of the modules that import_module can import.
Importable ==
    "app.views" :> ("zero" :> Function(<<>>, 0) @@
                    "view" :> Function(<<"request">>, 1) @@
                    "one" :> Function(<<"x">>, 1) @@
                    "paged" :> Function(<<"request", "page">>, 1) @@
                    "detail" :> Function(<<"request", "pk">>, 2) @@
                    "pair" :> Function(<<"a", "b">>, 2) @@
                    "opaque" :> Opaque @@
                    "LIMIT" :> NotCallable)

\* Modules whose import raises an error other than ModuleNotFoundError: the
\* empty name (ValueError), a module whose own code fails (ImportError).
ImportFails == "" :> "ValueError" @@ "app.broken" :> "ImportError"

\* What import_module(module_path) does.
import_module(module_path) ==
    IF module_path \in DOMAIN Importable
    THEN [raised |-> FALSE, value |-> module_path]
    ELSE IF module_path \in DOMAIN ImportFails
    THEN [raised |-> TRUE, value |-> ImportFails[module_path]]
    ELSE [raised |-> TRUE, value |-> "ModuleNotFoundError"]

\* The targets given on the command line.
Targets == {"app.views", "nomod:view", ":view", "app.broken:view",
            "app.views:missing", "app.views:view:x", "app.views:LIMIT",
            "app.views:opaque", "app.views:zero", "app.views:view",
            "app.views:one", "app.views:paged", "app.views:detail",
            "app.views:pair"}

\* How the body of the target ends once it is called.
BodyOutcomes == {"returns", "raises"}

\* The first position of character ch in s, 0 when there is none.
Find(s, ch) ==
    IF \E i \in 1..Len(s) : CharAt(s, i) = ch
    THEN CHOOSE i \in 1..Len(s) : CharAt(s, i) = ch /\ \A j \in 1..(i - 1) : CharAt(s, j) # ch
    ELSE 0

\* target.split(":", 1) of a target that has a ":".
SplitTarget(target) ==
    LET i == Find(target, ":")
    IN  <<SubSeq(target, 1, i - 1), SubSeq(target, i + 1, Len(target))>>

\* Command.resolve_target(target): the object, CommandError, or the error
\* of import_module that is no ModuleNotFoundError.
resolve_target(target) ==
    IF Find(target, ":") = 0 THEN [raised |-> TRUE, value |-> "CommandError"]
    ELSE LET module_path == SplitTarget(target)[1]
             object_name == SplitTarget(target)[2]
             module == import_module(module_path)
         IN  IF module.raised
             THEN [raised |-> TRUE,
                   value |-> IF module.value = "ModuleNotFoundError" THEN "CommandError"
                             ELSE module.value]
             ELSE IF object_name \notin DOMAIN Importable[module_path]
             THEN [raised |-> TRUE, value |-> "CommandError"]
             ELSE [raised |-> FALSE, value |-> Importable[module_path][object_name]]

\* The command ends with the exception error.
Fails(error) == [command EXCEPT !.pc = "failed", !.error = error]

\* manage.py orm_cost <target> starts handle (line 24).
RunCommand(target, debug) ==
    /\ command.pc = "idle"
    /\ command' = [pc |-> "resolve", target |-> target, debug |-> debug, obj |-> NotCallable,
                   call_args |-> <<>>, invoked |-> 0, error |-> "", out |-> <<>>]
    /\ UNCHANGED <<view_vars, tracker_vars, patch_calls, history_vars>>

\* obj = self.resolve_target(target) (line 26).
ResolveTarget ==
    /\ command.pc = "resolve"
    /\ LET obj == resolve_target(command.target)
       IN  command' = IF obj.raised THEN Fails(obj.value)
                      ELSE [command EXCEPT !.pc = "callable", !.obj = obj.value]
    /\ UNCHANGED <<view_vars, tracker_vars, patch_calls, history_vars>>

\* Lines 28-32: callable(obj) and inspect.signature(obj).
CheckCallable ==
    /\ command.pc = "callable"
    /\ command' = IF ~command.obj.callable THEN Fails("CommandError")
                  ELSE IF ~command.obj.signature THEN Fails("ValueError")
                  ELSE [command EXCEPT !.pc = "arguments"]
    /\ UNCHANGED <<view_vars, tracker_vars, patch_calls, history_vars>>

\* Lines 37-54: a mock request for a parameter named request, no argument for
\* a signature without parameters, CommandError otherwise.
PrepareArguments ==
    /\ command.pc = "arguments"
    /\ command' =
           IF "request" \in Range(command.obj.params)
           THEN [command EXCEPT !.pc = "execute", !.call_args = <<"request">>,
                                !.out = Append(Append(@, "Injecting mock HttpRequest..."),
                                               "Callable resolved. Executing...")]
           ELSE IF Len(command.obj.params) = 0
           THEN [command EXCEPT !.pc = "execute",
                                !.out = Append(@, "Callable resolved. Executing...")]
           ELSE Fails("CommandError")
    /\ UNCHANGED <<view_vars, tracker_vars, patch_calls, history_vars>>

\* Lines 57-69: the warning when DEBUG is off, then obj(*call_args).  A call
\* with too few arguments raises TypeError before the body runs; every
\* Exception becomes CommandError.
Invoke(body) ==
    /\ command.pc = "execute"
    /\ LET warned == IF command.debug THEN command.out
                     ELSE Append(command.out, "DEBUG=False")
           bound == Len(command.call_args) >= command.obj.required
       IN  command' =
               IF ~bound THEN [Fails("CommandError") EXCEPT !.out = warned]
               ELSE IF body = "raises"
               THEN [Fails("CommandError") EXCEPT !.out = warned, !.invoked = @ + 1]
               ELSE [command EXCEPT !.pc = "report", !.out = warned, !.invoked = @ + 1]
    /\ UNCHANGED <<view_vars, tracker_vars, patch_calls, history_vars>>

\* Lines 71-81: the report is written.
WriteReport ==
    /\ command.pc = "report"
    /\ command' = [command EXCEPT !.pc = "done",
                                  !.out = Append(@, "--- ORM COST REPORT ---")]
    /\ UNCHANGED <<view_vars, tracker_vars, patch_calls, history_vars>>

(***************************************************************************)
(* Specifications.                                                         *)
(***************************************************************************)

TrackerInit ==
    /\ execute_wrappers = <<>>
    /\ cm = [t \in Trackers |-> "none"]
    /\ with_stack = <<>>
    /\ tracker_queries = [t \in Trackers |-> <<>>]
    /\ statements = [k \in Callers |-> NoStatement]
    /\ issued = 0
    /\ summary = [t \in Trackers |-> NoSummary]

\* Book is a model of its own or derives from Author.
Hierarchies == {[m \in Models |-> "Model"],
                [m \in Models |-> IF m = "Book" THEN "Author" ELSE "Model"]}

ViewInit ==
    /\ base \in Hierarchies
    /\ getattribute = [m \in Models |-> Absent]
    /\ closures = EmptyDict
    /\ receivers = {}
    /\ heap = [a \in Addresses |-> "free"]
    /\ queries = [th \in Threads |-> <<>>]
    /\ pc = [c \in Calls |-> "idle"]
    /\ thread = [c \in Calls |-> 1]
    /\ caller = [c \in Calls |-> 0]
    /\ next_model = [c \in Calls |-> 1]
    /\ used_fields = [c \in Calls |-> EmptyDict]
    /\ patched_models = [c \in Calls |-> <<>>]
    /\ query_to_instances = [c \in Calls |-> EmptyDict]
    /\ start_queries = [c \in Calls |-> 0]
    /\ end_queries = [c \in Calls |-> 0]
    /\ loop = [c \in Calls |-> NoLoop]

\* No command run, no patch_model called by hand, no instance constructed.
ExtraInit ==
    /\ command = NoCommand
    /\ patch_calls = [c \in Calls |-> 0]
    /\ born = [a \in Addresses |-> NoBirth]
    /\ read_at = [th \in Threads |-> EmptyDict]

Init == ViewInit /\ TrackerInit /\ ExtraInit

Next ==
    \/ \E c \in Calls, th \in Threads : CallView(c, th)
    \/ \E c \in Calls : PatchNext(c)
    \/ \E c \in Calls : Connect(c)
    \/ \E c \in Calls : ViewReturn(c)
    \/ \E c \in Calls : ViewRaise(c)
    \/ \E c \in Calls : Disconnect(c)
    \/ \E c \in Calls : UnpatchAll(c)
    \/ \E c \in Calls : Report(c)
    \/ \E th \in Threads, m \in Models, a \in Addresses : Create(th, m, a)
    \/ \E th \in Threads, a \in Addresses, name \in AttrNames : Read(th, a, name)
    \/ \E th \in Threads, a \in Addresses : Release(th, a)

\* Decorated views, on one thread or several, with the application code
\* around them.
Spec == Init /\ [][Next]_vars

NextTracker ==
    \/ \E t \in Trackers : Enter(t)
    \/ \E t \in Trackers, exc \in BOOLEAN : Exit(t, exc)
    \/ \E k \in Owner, sql \in TrackerSQL : Issue(k, sql)
    \/ \E k \in Owner, outcome \in Outcomes : Underlying(k, outcome)
    \/ \E k \in Owner, duration \in Durations : WrapperReturn(k, duration)

\* ORMQueryTracker sessions on one connection, the statements executed one
\* after the other by the caller that holds the with blocks.
SpecTracker == Init /\ [][NextTracker]_vars

\* Entries a drawn log holds.
MaxLog == 3

\* Statements of a drawn window of a view.
MaxWindow == 3

\* The sequences over S of length at most n.
SeqsUpTo(S, n) == UNION {[1..k -> S] : k \in 0..n}

\* duplicate_summary() applied to every log of at most MaxLog statements.
DuplicatesInit ==
    /\ ViewInit
    /\ ExtraInit
    /\ execute_wrappers = <<>>
    /\ cm = [t \in Trackers |-> "none"]
    /\ with_stack = <<>>
    /\ \E texts \in SeqsUpTo(TrackerSQL, MaxLog) :
           tracker_queries = [t \in Trackers |->
               IF t = 1 THEN [k \in 1..Len(texts) |-> [sql |-> texts[k], time |-> 1]]
               ELSE <<>>]
    /\ statements = [k \in Callers |-> NoStatement]
    /\ issued = 0
    /\ summary = [t \in Trackers |-> NoSummary]

NextDuplicates == \E t \in Trackers : Summarize(t)

SpecDuplicates == DuplicatesInit /\ [][NextDuplicates]_vars

\* Statements of a view's window: a plain query, a query with a filter on
\* a list of values (written in lower case, with a qualified column), two
\* queries that differ in whitespace only, and a statement without a
\* SELECT ... FROM.
ReportSQL == {"SELECT * FROM parent",
              "select \"c\".\"user_id\" from c where parent_id in (1,2,3)",
              "SELECT id, name, email FROM u",
              "SELECT id,  name, email FROM u",
              "UPDATE t SET n = 1"}

\* What a tracker recorded during the view: the instances per query index
\* (query_to_instances) and the fields read per instance (used_fields).
ReportTrackers ==
    {[q2i |-> EmptyDict, used |-> EmptyDict],
     [q2i |-> (0 :> {1}), used |-> (1 :> {"id", "name"})],
     [q2i |-> (0 :> {1, 2}), used |-> (1 :> {"id"}) @@ (2 :> {"name", "title"})],
     [q2i |-> (0 :> {1}) @@ (1 :> {2}), used |-> (1 :> {"id"}) @@ (2 :> {"id", "email"})],
     [q2i |-> (1 :> {1}) @@ (2 :> {2}), used |-> (1 :> {"name"}) @@ (2 :> {"id"})],
     [q2i |-> (-1 :> {1}) @@ (1 :> {2}), used |-> (2 :> {"email"})]}

\* Call 1 has torn down and is about to print its report of a drawn window,
\* taken after start_queries earlier statements of the thread.
ReportInit ==
    /\ TrackerInit
    /\ ExtraInit
    /\ base = [m \in Models |-> "Model"]
    /\ getattribute = [m \in Models |-> ObjectGetattribute]
    /\ closures = [k \in {1} \X Models |-> ObjectGetattribute]
    /\ receivers = {}
    /\ heap = [a \in Addresses |-> "free"]
    /\ \E before \in SeqsUpTo({"SELECT 1"}, 1), window \in SeqsUpTo(ReportSQL, MaxWindow) :
           /\ queries = [th \in Threads |-> IF th = 1 THEN before \o window ELSE <<>>]
           /\ start_queries = [c \in Calls |-> IF c = 1 THEN Len(before) ELSE 0]
           /\ end_queries = [c \in Calls |-> IF c = 1 THEN Len(before) + Len(window) ELSE 0]
    /\ pc = [c \in Calls |-> IF c = 1 THEN "report" ELSE "idle"]
    /\ thread = [c \in Calls |-> 1]
    /\ caller = [c \in Calls |-> 0]
    /\ next_model = [c \in Calls |-> IF c = 1 THEN Len(GetModels) + 1 ELSE 1]
    /\ \E tr \in ReportTrackers :
           /\ used_fields = [c \in Calls |-> IF c = 1 THEN tr.used ELSE EmptyDict]
           /\ query_to_instances = [c \in Calls |-> IF c = 1 THEN tr.q2i ELSE EmptyDict]
    /\ patched_models = [c \in Calls |-> <<>>]
    /\ loop = [c \in Calls |-> NoLoop]

NextReport ==
    \/ \E c \in Calls : ReportBegin(c)
    \/ \E c \in Calls : LoopIteration(c)
    \/ \E c \in Calls : ReportEnd(c)

\* The report of the wrapper, iteration by iteration, on drawn windows.
SpecReport == ReportInit /\ [][NextReport]_vars

\* The tracker of the shared session, and the statements its callers
\* execute.
SharedTrackers == {1}

ConcurrentSQL == {"SELECT a FROM t", "SELECT b FROM t"}

NextConcurrent ==
    \/ \E t \in SharedTrackers : Enter(t)
    \/ \E t \in SharedTrackers, exc \in BOOLEAN : Exit(t, exc)
    \/ \E k \in Callers, sql \in ConcurrentSQL : Issue(k, sql)
    \/ \E k \in Callers, outcome \in Outcomes : Underlying(k, outcome)
    \/ \E k \in Callers, duration \in Durations : WrapperReturn(k, duration)

\* ORMQueryTracker sessions on a connection that two callers use at the
\* same time: their statements are in flight together, each step of a
\* _wrapper call is atomic (list.append is, in CPython).
SpecConcurrent == Init /\ [][NextConcurrent]_vars

NextCommand ==
    \/ \E target \in Targets, debug \in BOOLEAN : RunCommand(target, debug)
    \/ ResolveTarget
    \/ CheckCallable
    \/ PrepareArguments
    \/ \E body \in BodyOutcomes : Invoke(body)
    \/ WriteReport

\* One run of manage.py orm_cost on every target.
SpecCommand == Init /\ [][NextCommand]_vars

\* The one request of a session, and its thread.
SessionCalls == {1}

SessionThreads == {1}

NextSession ==
    \/ \E c \in SessionCalls, th \in SessionThreads : CallView(c, th)
    \/ \E c \in SessionCalls : PatchNext(c)
    \/ \E c \in SessionCalls : Connect(c)
    \/ \E th \in SessionThreads, sql \in ViewSQL : Execute(th, sql)
    \/ \E th \in SessionThreads, m \in Models, a \in Addresses : Create(th, m, a)
    \/ \E th \in SessionThreads, a \in Addresses, name \in AttrNames : Read(th, a, name)
    \/ \E th \in SessionThreads, a \in Addresses : Release(th, a)
    \/ \E c \in SessionCalls : ViewReturn(c)
    \/ \E c \in SessionCalls : Disconnect(c)
    \/ \E c \in SessionCalls : UnpatchAll(c)
    \/ \E c \in SessionCalls : Report(c)

NextPatch ==
    \/ \E c \in Calls, m \in Models : PatchModel(c, m)
    \/ \E th \in SessionThreads, m \in Models, a \in Addresses : Create(th, m, a)
    \/ \E th \in SessionThreads, a \in Addresses, name \in AttrNames : Read(th, a, name)
    \/ \E th \in SessionThreads, a \in Addresses : Release(th, a)

\* Two FieldUsageTrackers on which patch_model is called by hand, in any
\* order and more than once per model, with instances constructed, read and
\* dropped in between.
SpecPatch == Init /\ [][NextPatch]_vars

\* One decorated view on one thread: the statements its body executes, the
\* instances it constructs, reads and drops, and its report.
SpecSession == Init /\ [][NextSession]_vars

(***************************************************************************)
(* Properties.                                                             *)
(***************************************************************************)

\* A model's attribute access writes to no tracker: it behaves as it did
\* before any patch_model.
Unpatched(m) == TrackersOf(Resolve(m)) = {}

\* C1: teardown is unconditional.  Whenever a call of the wrapper has been
\* left, by return or by an exception of the view, its record_creation is
\* disconnected from post_init and its _patched_models is empty.
C1_TeardownOnEveryExit ==
    \A c \in Calls :
        pc[c] \in {"done", "raised"} =>
            /\ c \notin receivers
            /\ patched_models[c] = <<>>

\* C2: failure transparency of ORMQueryTracker._wrapper.  Every _wrapper call
\* that ends appends exactly one entry, with the statement's text, to its own
\* tracker's queries and to no other, and hands on what execute returned or
\* raised; so a finished statement returns or raises exactly what the
\* database's execute did, whether it failed or not.
C2_WrapperStep ==
    \A k \in Callers :
        /\ (statements[k].stage = "unwinding" /\ statements'[k] # statements[k]) =>
               LET t == Head(statements[k].pending)
                   before == tracker_queries[t]
                   after == tracker_queries'[t]
               IN  /\ Len(after) = Len(before) + 1
                   /\ SubSeq(after, 1, Len(before)) = before
                   /\ after[Len(after)].sql = statements[k].sql
                   /\ \A u \in Trackers \ {t} : tracker_queries'[u] = tracker_queries[u]
                   /\ statements'[k].result = statements[k].executed
        /\ statements'[k].stage = "finished" =>
               statements'[k].result = statements'[k].executed

C2_FailureTransparency == [][C2_WrapperStep]_vars

\* The one statement executed so far raised inside an entered tracker: the
\* error reached the caller and the tracker's log has the statement.
C2_Witness ==
    \E k \in Callers, t \in Trackers :
        /\ issued = 1
        /\ statements[k].stage = "finished"
        /\ statements[k].executed.raised
        /\ statements[k].result = statements[k].executed
        /\ Len(tracker_queries[t]) = 1
        /\ tracker_queries[t][1].sql = statements[k].sql

\* C3: teardown restoration for one session.  When only one decorated view
\* has run and its unpatch_all is over, every model's attribute access is
\* the one it had before patching, so that no later field read is recorded.
C3_RestoredAfterOneSession ==
    (pc[2] = "idle" /\ pc[1] \in {"report", "done"}) =>
        \A m \in Models : Unpatched(m)

\* C4: sessions are not nested.  A decorated view called from the body of a
\* decorated view fails where it starts: it patches no model and connects
\* no handler.
C4_NestedOpenRejected ==
    \A c \in Calls :
        caller[c] # 0 =>
            /\ pc[c] \in {"idle", "patch", "raised"}
            /\ patched_models[c] = <<>>
            /\ c \notin receivers

\* C5: no leak across overlapping sessions.  When two decorated views have
\* run on two threads at the same time and both have returned, every model's
\* attribute access is the one it had before either started (here for
\* models that do not derive from one another).
C5_NoLeakAcrossSessions ==
    (/\ \A m \in Models : base[m] = "Model"
     /\ pc[1] = "done" /\ pc[2] = "done"
     /\ caller[1] = 0 /\ caller[2] = 0
     /\ thread[1] # thread[2]) =>
        \A m \in Models : Unpatched(m)

RECURSIVE CollapseFrom(_, _, _, _)
\* The whitespace-collapsed text of s, character by character: whitespace at
\* the ends goes, every other run of whitespace becomes one space.
CollapseFrom(s, i, gap, acc) ==
    IF i > Len(s) THEN acc
    ELSE IF CharAt(s, i) \in Whitespace
         THEN CollapseFrom(s, i + 1, TRUE, acc)
         ELSE CollapseFrom(s, i + 1, FALSE,
                           acc \o (IF gap /\ acc # "" THEN " " ELSE "") \o CharAt(s, i))

Collapsed(s) == CollapseFrom(s, 1, FALSE, "")

\* How many of the texts collapse to k.
Occurrences(texts, k) == Cardinality({i \in 1..Len(texts) : Collapsed(texts[i]) = k})

\* C6: duplicate detection.  What duplicate_summary() returns maps every
\* whitespace-collapsed text that occurs more than once in the log to its
\* number of occurrences and holds no other key: texts that collapse to the
\* same text are counted together, texts that differ in another character
\* are not.
C6_DuplicateSummary ==
    \A t \in Trackers :
        summary[t] # NoSummary =>
            LET texts == LogTexts(t)
                keys == {Collapsed(texts[i]) : i \in 1..Len(texts)}
            IN  /\ DOMAIN summary[t] = {k \in keys : Occurrences(texts, k) > 1}
                /\ \A k \in DOMAIN summary[t] : summary[t][k] = Occurrences(texts, k)

\* A summary of a log in which two texts that differ in whitespace make a
\* cluster of two and a third text occurs once.
C6_Witness ==
    \E t \in Trackers :
        /\ summary[t] # NoSummary
        /\ Len(tracker_queries[t]) = 3
        /\ DOMAIN summary[t] = {"SELECT a FROM t"}
        /\ summary[t]["SELECT a FROM t"] = 2
        /\ \E i, j \in 1..3 :
               /\ tracker_queries[t][i].sql = "SELECT a FROM t"
               /\ tracker_queries[t][j].sql = "SELECT  a\tFROM t\n"

IsPrimaryLine(l) == l.kind = "SQL 1"

IsPrefetchLine(l) == l.kind = "SQL 2 (Prefetch)"

IsStatementLine(l) == IsPrimaryLine(l) \/ IsPrefetchLine(l)

\* The texts of a sequence of printed lines.
TextsOf(lines) == [k \in 1..Len(lines) |-> lines[k].sql]

\* The units of a report: for each primary line, its text and the texts of
\* the prefetch lines printed under the same number.
PrintedUnits(out) ==
    LET primaries == SelectSeq(out, IsPrimaryLine)
    IN  [u \in 1..Len(primaries) |->
            LET SameUnit(l) == IsPrefetchLine(l) /\ l.n = primaries[u].n
            IN  <<primaries[u].sql>> \o TextsOf(SelectSeq(out, SameUnit))]

RECURSIVE GreedyUnits(_, _)
\* The grouping the claim describes, from position i (1-based) of window w:
\* the statement after i joins i when its text has the filter on a list of
\* values, and the scan goes on behind the unit.
GreedyUnits(w, i) ==
    IF i > Len(w) THEN <<>>
    ELSE IF i + 1 <= Len(w) /\ LooksLikePrefetch(w[i + 1])
         THEN << <<Prefix(w[i], 100), Prefix(w[i + 1], 100)>> >> \o GreedyUnits(w, i + 2)
         ELSE << <<Prefix(w[i], 100)>> >> \o GreedyUnits(w, i + 1)

\* C7: prefetch grouping.  The finished report groups the window greedily
\* from the left: statement i+1 is the continuation of statement i exactly
\* when its text has a WHERE with an IN, the scan goes on at i+2, a
\* continuation is never a parent, and every other statement is a unit of
\* its own.
C7_PrefetchGrouping ==
    \A c \in Calls :
        pc[c] = "done" => PrintedUnits(loop[c].out) = GreedyUnits(ViewQueries(c), 1)

\* A finished report of three statements of which the second and the third
\* both look like a prefetch: the second is the continuation of the first,
\* the third a unit of its own.
C7_Witness ==
    \E c \in Calls :
        /\ pc[c] = "done"
        /\ Len(ViewQueries(c)) = 3
        /\ LooksLikePrefetch(ViewQueries(c)[2])
        /\ LooksLikePrefetch(ViewQueries(c)[3])
        /\ Len(PrintedUnits(loop[c].out)) = 2
        /\ Len(PrintedUnits(loop[c].out)[1]) = 2
        /\ Len(PrintedUnits(loop[c].out)[2]) = 1

\* C8: every statement is reported once, in order.  While the loop runs, the
\* statement lines printed so far are those of the statements scanned so
\* far, in order; at the end they are those of the whole window; the units
\* are numbered 1, 2, ... and each has one primary line and at most one
\* prefetch line; a window without statements prints no unit.
C8_EveryStatementOnce ==
    \A c \in Calls :
        pc[c] \in {"loop", "done"} =>
            LET w == ViewQueries(c)
                out == loop[c].out
                scanned == IF pc[c] = "done" THEN Len(w)
                           ELSE loop[c].i + (IF loop[c].skip_next THEN 1 ELSE 0)
                primaries == SelectSeq(out, IsPrimaryLine)
            IN  /\ TextsOf(SelectSeq(out, IsStatementLine))
                     = [k \in 1..scanned |-> Prefix(w[k], 100)]
                /\ \A u \in 1..Len(primaries) : primaries[u].n = u
                /\ \A u \in 1..Len(primaries) : Len(PrintedUnits(out)[u]) \in {1, 2}
                /\ \A k \in 1..Len(out) :
                       IsPrefetchLine(out[k]) => out[k].n \in 1..Len(primaries)
                /\ (Len(w) = 0 /\ pc[c] = "done") =>
                       out = LoopStart(w).out

\* A finished report of three statements in two units.
C8_Witness ==
    \E c \in Calls :
        /\ pc[c] = "done"
        /\ Len(ViewQueries(c)) = 3
        /\ Len(SelectSeq(loop[c].out, IsPrimaryLine)) = 2
        /\ Len(SelectSeq(loop[c].out, IsPrefetchLine)) = 1

\* C9: consumed fields are declared fields.  For every tracker and every live
\* instance, the set recorded under the instance's id in used_fields holds
\* only field names of the instance's model.
C9_UsedFieldsAreDeclared ==
    \A c \in Calls, a \in Addresses :
        (heap[a] # "free" /\ a \in DOMAIN used_fields[c]) =>
            used_fields[c][a] \subseteq MetaFields[heap[a]]

\* The fetched list is the wildcard marker.
IsWildcard(fetched) == fetched = <<"*">>

\* C10: unused-field detection.  In a finished report every line of fetched
\* fields comes with a line of unused fields under the same unit: the fetched
\* fields that are not among the consumed ones, or "unknown" when the
\* fetched list is the wildcard.
C10_UnusedFieldsReported ==
    \A c \in Calls :
        pc[c] = "done" =>
            LET out == loop[c].out
            IN  \A k \in 1..Len(out) :
                    out[k].kind = "Fields fetched" =>
                        \E j \in 1..Len(out) :
                            /\ out[j].kind = "Fields unused"
                            /\ out[j].n = out[k].n
                            /\ IF IsWildcard(out[k].fetched)
                               THEN out[j].sql = "unknown"
                               ELSE out[j].consumed =
                                        Range(out[k].fetched) \ out[k + 1].consumed

\* C11: the field-read hook only observes.  For every patched_getattribute
\* closure there is, every live instance and every attribute name, field or
\* not, the call of the closure ends as the call of its original does: with
\* the same value or the same exception.
C11_HookOnlyObserves ==
    \A fn \in DOMAIN closures, a \in Addresses, name \in AttrNames \cup {"_meta"} :
        heap[a] # "free" =>
            getattribute_outcome(fn, a, name) = getattribute_outcome(closures[fn], a, name)

\* A live Author whose class is patched and on which a field was read and
\* recorded; reading title on it raises AttributeError through the hook, and
\* reading save returns the method.
C11_Witness ==
    \E a \in Addresses, c \in Calls :
        /\ heap[a] = "Author"
        /\ Resolve("Author") = <<c, "Author">>
        /\ a \in DOMAIN used_fields[c]
        /\ "name" \in used_fields[c][a]
        /\ getattribute_outcome(Resolve("Author"), a, "title").raised
        /\ ~getattribute_outcome(Resolve("Author"), a, "save").raised

\* The target has no separator, or names a module that cannot be imported,
\* or an attribute the module lacks.
Unresolvable(target) ==
    \/ Find(target, ":") = 0
    \/ SplitTarget(target)[1] \notin DOMAIN Importable
    \/ SplitTarget(target)[2] \notin DOMAIN Importable[SplitTarget(target)[1]]

\* The object the target names.
TargetObject(target) == Importable[SplitTarget(target)[1]][SplitTarget(target)[2]]

\* The target names a callable with no parameter or with one.
ZeroOrOneArgument(target) ==
    /\ ~Unresolvable(target)
    /\ TargetObject(target).callable
    /\ TargetObject(target).signature
    /\ Len(TargetObject(target).params) \in {0, 1}

\* C12: the orm_cost command.  A run that is over ended with CommandError
\* and without calling the target when the target cannot be resolved, is
\* not callable or has neither zero parameters nor one; and it called the
\* target exactly once when the target is a callable of zero or one
\* parameter.
C12_CommandTargets ==
    command.pc \in {"failed", "done"} =>
        IF ZeroOrOneArgument(command.target)
        THEN command.invoked = 1
        ELSE command.error = "CommandError" /\ command.invoked = 0

\* C13: concurrent statements in one session.  In every step, a tracker's
\* log changes only because a _wrapper call of that tracker ends, and then
\* the log gains one entry, the ending statement's, behind all it held: the
\* entries keep their positions, which are 1, 2, ... without a gap, and a
\* statement's position is given when it completes, whenever it was issued.
\* Every _wrapper call that ends gives its statement one position.
C13_Step ==
    /\ \A t \in Trackers :
           tracker_queries'[t] # tracker_queries[t] =>
               \E k \in Callers :
                   /\ statements[k].stage = "unwinding"
                   /\ Head(statements[k].pending) = t
                   /\ statements'[k].pending = Tail(statements[k].pending)
                   /\ \A j \in Callers \ {k} : statements'[j] = statements[j]
                   /\ Len(tracker_queries'[t]) = Len(tracker_queries[t]) + 1
                   /\ SubSeq(tracker_queries'[t], 1, Len(tracker_queries[t])) = tracker_queries[t]
                   /\ tracker_queries'[t][Len(tracker_queries'[t])].sql = statements[k].sql
    /\ \A k \in Callers :
           (statements[k].stage = "unwinding" /\ statements'[k] # statements[k]) =>
               Len(tracker_queries'[Head(statements[k].pending)])
                   = Len(tracker_queries[Head(statements[k].pending)]) + 1

C13_CompletionOrder == [][C13_Step]_vars

\* Two statements were in flight together in one session; the one issued
\* second completed first and holds position 1, the one issued first
\* position 2.
C13_Witness ==
    \E t \in Trackers, k, j \in Callers :
        /\ statements[k].stage = "finished" /\ statements[j].stage = "finished"
        /\ statements[k].serial = 1 /\ statements[j].serial = 2
        /\ statements[k].sql # statements[j].sql
        /\ Len(tracker_queries[t]) = 2
        /\ tracker_queries[t][1].sql = statements[j].sql
        /\ tracker_queries[t][2].sql = statements[k].sql

\* The statement indices under which tracker c holds token a.
IndicesOf(c, a) == {idx \in DOMAIN query_to_instances[c] : a \in query_to_instances[c][idx]}

\* C14: one producing statement per object.  After every step, each token
\* that a tracker holds is in the set of exactly one statement index; and an
\* instance constructed while the tracker's record_creation is connected
\* gets a token the tracker has not recorded before and under which it holds
\* no field reads of another instance.
C14_Step ==
    /\ \A c \in Calls, a \in Addresses : Cardinality(IndicesOf(c, a))' <= 1
    /\ \A a \in Addresses :
           (heap[a] = "free" /\ heap'[a] # "free") =>
               \A c \in receivers :
                   /\ IndicesOf(c, a) = {}
                   /\ a \notin DOMAIN used_fields[c]

C14_OneProducingStatement == [][C14_Step]_vars

IsConsumedLine(l) == l.kind \in {"Fields consumed", "Prefetch Fields consumed"}

IsFetchedLine(l) == l.kind \in {"Fields fetched", "Prefetch Fields fetched"}

\* The fields that were read on the instances constructed after the
\* statement at position k (1-based) of call c's window and before the next.
ReadOnObjectsOf(c, k) == DictGet(read_at[thread[c]], start_queries[c] + k - 1)

\* C15: materialization attribution.  An instance constructed while a
\* tracker's record_creation is connected is recorded under the index of the
\* last statement logged so far (the number of statements minus one); and in
\* a finished report the consumed fields printed for the statement at
\* position k are fields read on instances constructed under its index.
C15_Step ==
    /\ \A a \in Addresses :
           (heap[a] = "free" /\ heap'[a] # "free") =>
               \A c \in receivers :
                   a \in DictGet(query_to_instances'[c], Len(queries[thread[c]]) - 1)
    /\ \A c \in Calls :
           pc'[c] = "done" =>
               LET consumed == SelectSeq(loop'[c].out, IsConsumedLine)
               IN  \A k \in 1..Len(consumed) :
                       consumed[k].consumed \subseteq ReadOnObjectsOf(c, k)'

C15_Attribution == [][C15_Step]_vars

\* Field f equals an entry of the fetched list or is a part of one.
MatchesFetched(f, fetched) == \E j \in 1..Len(fetched) : Contains(fetched[j], f)

\* C16: the consumed-column filter.  In a finished report, the consumed list
\* printed for the statement at position k holds exactly the fields that were
\* read on an instance of that statement and equal, or are part of, an entry
\* of its fetched list.
C16_ConsumedFilter ==
    \A c \in Calls :
        pc[c] = "done" =>
            LET consumed == SelectSeq(loop[c].out, IsConsumedLine)
                fetched == SelectSeq(loop[c].out, IsFetchedLine)
            IN  \A k \in 1..Len(consumed) :
                    consumed[k].consumed =
                        {f \in ReadOnObjectsOf(c, k) : MatchesFetched(f, fetched[k].fetched)}

\* Tracker t is inside one of its with blocks.
InSession(t) == t \in Range(with_stack)

\* C17: a session is sealed on exit.  A tracker that is inside none of its
\* with blocks, because it was never entered or because __exit__ has returned
\* from each, has no wrapper installed on the connection, and no step changes
\* its queries, total_queries, total_db_time or the texts that
\* duplicate_summary() is computed from.
C17_Step ==
    \A t \in Trackers :
        /\ ~InSession(t)' => t \notin Range(execute_wrappers')
        /\ (~InSession(t) /\ ~InSession(t)') =>
               /\ tracker_queries'[t] = tracker_queries[t]
               /\ total_queries(t)' = total_queries(t)
               /\ total_db_time(t)' = total_db_time(t)
               /\ LogTexts(t)' = LogTexts(t)

C17_SealedOnExit == [][C17_Step]_vars

\* A tracker was entered, logged a statement and was exited; a statement
\* executed after that ran to its end and is not in the log.
C17_Witness ==
    \E t \in Trackers :
        /\ cm[t] = "exited"
        /\ with_stack = <<>>
        /\ execute_wrappers = <<>>
        /\ LogTexts(t) = <<"SELECT a FROM t">>
        /\ statements[1].stage = "finished"
        /\ statements[1].serial = 2
        /\ statements[1].sql = "SELECT b FROM t"

\* C18: patching is idempotent per tracker.  In a step that calls patch_model
\* on tracker c, a model that c has patched keeps its __getattribute__, its
\* closure and its stored original; and a model enters _patched_models with
\* the __getattribute__ it had just before, so that the stored original is
\* the behaviour from before c's first patch for as long as it is stored.
C18_Step ==
    \A c \in Calls, m \in Models :
        /\ (IsPatchedBy(c, m) /\ patch_calls'[c] # patch_calls[c]) =>
               /\ IsPatchedBy(c, m)'
               /\ getattribute'[m] = getattribute[m]
               /\ closures'[<<c, m>>] = closures[<<c, m>>]
               /\ OriginalOf(c, m)' = OriginalOf(c, m)
               /\ Len(patched_models'[c]) \in {Len(patched_models[c]), Len(patched_models[c]) + 1}
        /\ (IsPatchedBy(c, m) /\ IsPatchedBy(c, m)') => OriginalOf(c, m)' = OriginalOf(c, m)
        /\ (~IsPatchedBy(c, m) /\ IsPatchedBy(c, m)') => OriginalOf(c, m)' = Resolve(m)

C18_PatchIdempotent == [][C18_Step]_vars

\* patch_model was called three times on a tracker that holds one model: the
\* second and the third call changed nothing.
C18_Witness ==
    \E c \in Calls :
        /\ patch_calls[c] = 3
        /\ Len(patched_models[c]) = 1
        /\ getattribute[patched_models[c][1][1]] = <<c, patched_models[c][1][1]>>

\* The report of call c ends with the duplicate-queries warning.
WarningPrinted(c) ==
    \E k \in 1..Len(loop[c].out) : loop[c].out[k].kind = "Duplicate Queries Detected"

\* Some whitespace-collapsed statement text occurs more than once in the
\* window of call c.
CollapsedDuplicate(c) ==
    \E i, j \in 1..Len(ViewQueries(c)) :
        i # j /\ Collapsed(ViewQueries(c)[i]) = Collapsed(ViewQueries(c)[j])

\* C19: the report's duplicate warning agrees with duplicate detection.  A
\* finished report has the duplicate-queries warning if and only if some
\* whitespace-collapsed statement text occurs more than once in the window.
C19_WarningAgrees ==
    \A c \in Calls :
        pc[c] = "done" => (WarningPrinted(c) <=> CollapsedDuplicate(c))

=============================================================================
